---- MODULE Spec2Model ----
(***************************************************************************)
(* Face-recognition attendance backend (backend/server.py).                *)
(*                                                                         *)
(* The store is the two MongoDB collections db.persons and db.attendance.  *)
(* Every request handler is a coroutine: the code between two awaits runs  *)
(* without interruption and each awaited storage call is executed by the   *)
(* store atomically, so one action of the model is one storage call        *)
(* together with the handler code that leads to it and branches on it.     *)
(* Handlers of different requests interleave freely at the awaits.         *)
(* A handler's first action is the request's start; resp is the response   *)
(* the last step sent to its caller, if it sent one.                       *)
(*                                                                         *)
(* The payload fields face_descriptor, photo, role and confidence are      *)
(* stored and returned verbatim and never read by any handler; they are    *)
(* not part of the records of the model.                                   *)
(***************************************************************************)
EXTENDS Integers, Sequences, FiniteSets, TLC

\* ---- bounds of the model ------------------------------------------------
MaxRequests == 4     \* requests served in one behaviour
NumProcs == 2        \* requests that can be in flight at the same time
MaxPersons == 2      \* Person ids (uuid4) that can be generated
MaxRecords == 2      \* AttendanceRecord ids (uuid4) that can be generated
MaxTime == 2         \* the clock stops ticking there
TicksPerDay == 2     \* clock ticks in one calendar day
NumEmployeeIds == 2  \* distinct employee_id strings callers send
NumNames == 1        \* distinct name strings callers send
HistorySmall == 3    \* the small collections of SpecHistory have 0..HistorySmall records
HistoryOver == 2     \* its large ones have up to HistoryCap + HistoryOver records
SubTicks == 2        \* clock readings told apart within one tick
ListSmall == 3       \* the small stores of SpecLists have 0..ListSmall records
ListOver == 2        \* its large ones have up to ListCap + ListOver records

\* ---- program constants --------------------------------------------------
ListCap == 1000      \* to_list(1000)
HistoryCap == 100    \* to_list(100)

Procs == 1..NumProcs
EmployeeIds == 1..NumEmployeeIds
Names == 1..NumNames
\* An id no Person ever gets: a uuid4 the caller made up.
FakeId == 0

VARIABLES persons, attendance, now, nextPersonId, nextRecordId, req, resp,
          quietDeleted, quietDeletedEmps, started

vars == <<persons, attendance, now, nextPersonId, nextRecordId, req, resp,
          quietDeleted, quietDeletedEmps, started>>

\* ---- pure helpers -------------------------------------------------------
\* datetime.now().strftime("%Y-%m-%d"): the calendar-day key of an instant.
\* The day key formatted without the day of the month ("%Y-%m"): every tick
\* of the model has the same key.
DateKey_Month(t) == 0

DateKey(t) == t \div TicksPerDay

\* datetime.utcnow() at clock tick t: a reading finer than the tick, u being
\* the part of the reading below the precision a stored datetime keeps.
UtcNow(t, u) == t * SubTicks + u

\* The tick of a reading.
TickOf(ts) == ts \div SubTicks

\* A datetime as the store keeps it: insert_one encodes it as a BSON datetime,
\* which drops the part of the reading below its precision.
BsonDatetime(ts) == TickOf(ts) * SubTicks

Range(s) == {s[i] : i \in 1..Len(s)}

\* to_list(n): at most the first n documents of a cursor.
ToList(s, n) == IF Len(s) <= n THEN s ELSE SubSeq(s, 1, n)

\* delete_one(filter): the first matching document only.
RECURSIVE RemoveFirst(_, _)
RemoveFirst(coll, pid) ==
    IF coll = <<>> THEN <<>>
    ELSE IF Head(coll).id = pid THEN Tail(coll)
    ELSE <<Head(coll)>> \o RemoveFirst(Tail(coll), pid)

PersonIdsIn(coll) == {d.id : d \in Range(coll)}

\* The pre-check of create_person with the filter on the wrong field.
EmployeeIdExists_WrongField(coll, emp) == \E d \in Range(coll) : d.name = emp

\* db.persons.find_one({"employee_id": e}) is truthy.
EmployeeIdExists(coll, emp) == \E d \in Range(coll) : d.employee_id = emp

\* The person check of mark_attendance with the filter lost: any document.
PersonExists_NoFilter(coll, pid) == coll # <<>>

\* db.persons.find_one({"id": pid}) is truthy.
PersonExists(coll, pid) == \E d \in Range(coll) : d.id = pid

\* The attendance check of mark_attendance comparing the day key with the
\* timestamp field instead of the date field.
AlreadyMarked_Timestamp(coll, pid, day) ==
    \E d \in Range(coll) : d.person_id = pid /\ d.timestamp = day

\* db.attendance.find_one({"person_id": pid, "date": day}) is truthy.
AlreadyMarked(coll, pid, day) ==
    \E d \in Range(coll) : d.person_id = pid /\ d.date = day

\* delete_one of delete_person with the filter on employee_id instead of id.
DeleteOne_ByEmployeeId(coll, pid) ==
    LET hits == {i \in 1..Len(coll) : coll[i].employee_id = pid}
        first == CHOOSE i \in hits : \A j \in hits : i <= j
        Keep(d) == d # coll[first]
    IN IF hits = {} THEN coll ELSE SelectSeq(coll, Keep)

\* db.persons.delete_one({"id": pid}): the collection afterwards.
DeleteOne(coll, pid) == RemoveFirst(coll, pid)

\* The cascade of delete_person done with delete_one: the first match only.
RECURSIVE DeleteMany_FirstOnly(_, _)
DeleteMany_FirstOnly(coll, pid) ==
    IF coll = <<>> THEN <<>>
    ELSE IF Head(coll).person_id = pid THEN Tail(coll)
    ELSE <<Head(coll)>> \o DeleteMany_FirstOnly(Tail(coll), pid)

\* The cascade with the filter on employee_id instead of person_id.
DeleteMany_ByEmployeeId(coll, pid) ==
    LET Keep(d) == d.employee_id # pid IN SelectSeq(coll, Keep)

\* The cascade with the filter lost: delete_many({}) removes every record.
DeleteMany_All(coll, pid) == <<>>

\* db.attendance.delete_many({"person_id": pid}): the collection afterwards.
DeleteMany(coll, pid) ==
    LET Keep(d) == d.person_id # pid IN SelectSeq(coll, Keep)

\* .sort("timestamp", -1): most recent first; of two documents with the same
\* timestamp the later one of the collection comes first.
SortDesc(s) ==
    LET n == Len(s)
        rank == [i \in 1..n |->
                    1 + Cardinality({j \in 1..n :
                            \/ s[j].timestamp > s[i].timestamp
                            \/ s[j].timestamp = s[i].timestamp /\ j > i})]
    IN [k \in 1..n |-> s[CHOOSE i \in 1..n : rank[i] = k]]

Max(a, b) == IF a >= b THEN a ELSE b

\* round(present / total * 100, 2), in hundredths of a percent; round() is
\* round-half-to-even.
Round2(present, total) ==
    LET n == present * 10000
        q == n \div total
        r == n % total
    IN IF 2 * r > total \/ (2 * r = total /\ q % 2 = 1) THEN q + 1 ELSE q

\* The stats with absent_today computed without the max(0, ...).
Stats_NoClamp(total_registered, present_today) ==
    [total_registered |-> total_registered,
     present_today |-> present_today,
     absent_today |-> total_registered - present_today,
     attendance_rate |-> IF total_registered > 0
                         THEN Round2(present_today, total_registered) ELSE 0]

\* The AttendanceStats a handler returns for the two counts.
Stats(total_registered, present_today) ==
    [total_registered |-> total_registered,
     present_today |-> present_today,
     absent_today |-> Max(0, total_registered - present_today),
     attendance_rate |-> IF total_registered > 0
                         THEN Round2(present_today, total_registered) ELSE 0]

\* The Person with an id derived from its employee_id, not generated.
NewPerson_IdFromEmployee(id, name, emp, ts) ==
    [id |-> emp, name |-> name, employee_id |-> emp, created_at |-> ts]

\* The Person with the id a default evaluated once would give
\* (default=str(uuid.uuid4()) for default_factory): the same id every time.
NewPerson_SharedDefault(id, name, emp, ts) ==
    [id |-> 1, name |-> name, employee_id |-> emp, created_at |-> ts]

\* Person(**person_dict): id and created_at come from the default factories.
NewPerson(id, name, emp, ts) ==
    [id |-> id, name |-> name, employee_id |-> emp, created_at |-> ts]

\* person_obj.dict() as insert_one stores it.
PersonDoc(person_obj) == [person_obj EXCEPT !.created_at = BsonDatetime(@)]

\* The AttendanceRecord with the two snapshot fields taken from each other.
NewAttendanceRecord_Swapped(id, pid, name, emp, ts) ==
    [id |-> id, person_id |-> pid, person_name |-> emp, employee_id |-> name,
     timestamp |-> ts, date |-> DateKey(TickOf(ts))]

\* AttendanceRecord(**attendance_dict): id, timestamp and date come from the
\* default factories, the other fields from the caller.
NewAttendanceRecord(id, pid, name, emp, ts) ==
    [id |-> id, person_id |-> pid, person_name |-> name, employee_id |-> emp,
     timestamp |-> ts, date |-> DateKey(TickOf(ts))]

\* attendance_obj.dict() as insert_one stores it.
AttendanceDoc(attendance_obj) == [attendance_obj EXCEPT !.timestamp = BsonDatetime(@)]

\* ---- requests -----------------------------------------------------------
\* The state of one request: its arguments, the handler's locals, where the
\* handler is, what it returned, and for the properties: whether it wrote
\* (wrote) and what the store held when it started (pre, preDays).
Blank ==
    [op |-> "none", pc |-> "idle",
     person_id |-> 0, name |-> 0, employee_id |-> 0, date_str |-> 0,
     today |-> 0, obj |-> <<>>,
     result |-> "none", value |-> <<>>,
     wrote |-> FALSE, pre |-> FALSE, preDays |-> {}]

NoResp == Blank

InFlight(p) == req[p].op # "none"

\* Request slots are interchangeable: a new request takes the lowest free one.
Free(p) == ~InFlight(p) /\ \A q \in Procs : q < p => InFlight(q)

\* A request arrives and its handler starts in slot p.
Start(p) ==
    /\ Free(p)
    /\ started < MaxRequests
    /\ started' = started + 1

OthersDone(p) == \A q \in Procs \ {p} : ~InFlight(q)

\* The handler of slot p returns r to its caller.
Returns(p, r) ==
    /\ req' = [req EXCEPT ![p] = Blank]
    /\ resp' = [r EXCEPT !.pc = "done"]

\* The handler of slot p goes on, as r, to its next await.
Continues(p, r) ==
    /\ req' = [req EXCEPT ![p] = r]
    /\ resp' = NoResp

\* Ids a caller can send: ids register has returned, or a made-up one.
CallerIds == {FakeId} \cup (1..(nextPersonId - 1))

\* Day keys a caller can ask for: the days the clock reaches.
DayKeys == 0..DateKey(MaxTime)

Init ==
    /\ persons = <<>>
    /\ attendance = <<>>
    /\ now = 0
    /\ nextPersonId = 1
    /\ nextRecordId = 1
    /\ req = [p \in Procs |-> Blank]
    /\ resp = NoResp
    /\ quietDeleted = {}
    /\ quietDeletedEmps = {}
    /\ started = 0

\* The clock advances.
Tick ==
    /\ now < MaxTime
    /\ now' = now + 1
    /\ resp' = NoResp
    /\ UNCHANGED <<persons, attendance, nextPersonId, nextRecordId, req, quietDeleted, quietDeletedEmps, started>>

\* ---- POST /persons: create_person -----------------------------------------
\* Handlers that have passed the pre-check and will still generate an id.
PendingCreates == Cardinality({q \in Procs : req[q].op = "create"})

\* Entry to the result of the find_one pre-check.
CreateCheck(p, name, emp) ==
    /\ Start(p)
    /\ EmployeeIdExists(persons, emp) \/ nextPersonId + PendingCreates <= MaxPersons
    /\ LET r == [Blank EXCEPT !.op = "create", !.name = name, !.employee_id = emp,
                              !.pre = \E i \in 1..Len(persons) :
                                          persons[i].employee_id = emp]
       IN IF EmployeeIdExists(persons, emp)
          THEN Returns(p, [r EXCEPT !.result = "DuplicateEmployeeId"])
          ELSE Continues(p, [r EXCEPT !.pc = "insert"])
    /\ UNCHANGED <<persons, attendance, now, nextPersonId, nextRecordId, quietDeleted, quietDeletedEmps>>

\* Building the Person, insert_one, and the return.
CreateInsert(p) ==
    /\ req[p].op = "create" /\ req[p].pc = "insert"
    /\ \E u \in 0..(SubTicks - 1) :
          LET person_obj == NewPerson(nextPersonId, req[p].name, req[p].employee_id,
                                      UtcNow(now, u))
          IN /\ persons' = Append(persons, PersonDoc(person_obj))
             /\ Returns(p, [req[p] EXCEPT !.result = "ok", !.value = <<person_obj>>,
                                          !.wrote = TRUE])
    /\ nextPersonId' = nextPersonId + 1
    /\ UNCHANGED <<attendance, now, nextRecordId, quietDeleted, quietDeletedEmps, started>>

\* ---- DELETE /persons/{person_id}: delete_person ---------------------------
\* Entry to the result of delete_one.
DeleteOnePerson(p, pid) ==
    /\ Start(p)
    /\ persons' = DeleteOne(persons, pid)
    /\ LET r == [Blank EXCEPT !.op = "delete", !.person_id = pid,
                              !.employee_id =
                                  IF \E i \in 1..Len(persons) : persons[i].id = pid
                                  THEN persons[CHOOSE i \in 1..Len(persons) :
                                                   persons[i].id = pid].employee_id
                                  ELSE 0,
                              !.pre = \A i \in 1..Len(persons) : persons[i].id # pid]
       IN IF Len(persons') = Len(persons)
          THEN Returns(p, [r EXCEPT !.result = "PersonNotFound"])
          ELSE Continues(p, [r EXCEPT !.pc = "cascade", !.wrote = TRUE])
    /\ UNCHANGED <<attendance, now, nextPersonId, nextRecordId, quietDeleted, quietDeletedEmps>>

\* delete_many of the person's attendance records, and the return.
DeleteCascade(p) ==
    /\ req[p].op = "delete" /\ req[p].pc = "cascade"
    /\ attendance' = DeleteMany(attendance, req[p].person_id)
    /\ Returns(p, [req[p] EXCEPT !.result = "ok"])
    /\ quietDeleted' = IF OthersDone(p) THEN quietDeleted \cup {req[p].person_id}
                       ELSE quietDeleted
    /\ quietDeletedEmps' = IF OthersDone(p)
                           THEN quietDeletedEmps \cup {req[p].employee_id}
                           ELSE quietDeletedEmps
    /\ UNCHANGED <<persons, now, nextPersonId, nextRecordId, started>>

\* delete_one raises (the store cannot be reached): nothing is removed and
\* the except clause answers with an internal error.
DeleteOneFails(p, pid) ==
    /\ Start(p)
    /\ Returns(p, [Blank EXCEPT !.op = "delete", !.person_id = pid,
                       !.pre = \A i \in 1..Len(persons) : persons[i].id # pid,
                       !.result = "InternalError"])
    /\ UNCHANGED <<persons, attendance, now, nextPersonId, nextRecordId, quietDeleted, quietDeletedEmps>>

\* delete_many raises after delete_one has removed the Person: the except
\* clause answers with an internal error.
DeleteCascadeFails(p) ==
    /\ req[p].op = "delete" /\ req[p].pc = "cascade"
    /\ Returns(p, [req[p] EXCEPT !.result = "InternalError"])
    /\ UNCHANGED <<persons, attendance, now, nextPersonId, nextRecordId, quietDeleted, quietDeletedEmps,
                   started>>

\* ---- POST /attendance: mark_attendance -----------------------------------
\* Handlers that have passed both checks and will still generate a record id.
PendingMarks == Cardinality({q \in Procs : req[q].op = "mark" /\ req[q].pc = "build"})

\* Entry to the result of the find_one on persons.
MarkFindPerson(p, pid, name, emp) ==
    /\ Start(p)
    /\ LET r == [Blank EXCEPT !.op = "mark", !.person_id = pid, !.name = name,
                              !.employee_id = emp,
                              !.pre = \A i \in 1..Len(persons) : persons[i].id # pid,
                              !.preDays = {attendance[i].date : i \in
                                  {j \in 1..Len(attendance) : attendance[j].person_id = pid}}]
       IN IF ~PersonExists(persons, pid)
          THEN Returns(p, [r EXCEPT !.result = "PersonNotFound"])
          ELSE Continues(p, [r EXCEPT !.pc = "check"])
    /\ UNCHANGED <<persons, attendance, now, nextPersonId, nextRecordId, quietDeleted, quietDeletedEmps>>

\* today is computed, then the find_one on attendance.
MarkCheckToday(p) ==
    /\ req[p].op = "mark" /\ req[p].pc = "check"
    /\ \/ AlreadyMarked(attendance, req[p].person_id, DateKey(now))
       \/ nextRecordId + PendingMarks <= MaxRecords
    /\ LET today == DateKey(now)
       IN IF AlreadyMarked(attendance, req[p].person_id, today)
          THEN Returns(p, [req[p] EXCEPT !.today = today,
                                         !.result = "AttendanceAlreadyMarked"])
          ELSE Continues(p, [req[p] EXCEPT !.today = today, !.pc = "build"])
    /\ UNCHANGED <<persons, attendance, now, nextPersonId, nextRecordId, quietDeleted, quietDeletedEmps, started>>

\* The AttendanceRecord is built: its default factories read the clock.
MarkBuild(p) ==
    /\ req[p].op = "mark" /\ req[p].pc = "build"
    /\ \E u \in 0..(SubTicks - 1) :
          Continues(p, [req[p] EXCEPT !.pc = "insert",
                           !.obj = <<NewAttendanceRecord(nextRecordId, req[p].person_id,
                                         req[p].name, req[p].employee_id,
                                         UtcNow(now, u))>>])
    /\ nextRecordId' = nextRecordId + 1
    /\ UNCHANGED <<persons, attendance, now, nextPersonId, quietDeleted, quietDeletedEmps, started>>

\* insert_one and the return.
MarkInsert(p) ==
    /\ req[p].op = "mark" /\ req[p].pc = "insert"
    /\ attendance' = Append(attendance, AttendanceDoc(req[p].obj[1]))
    /\ Returns(p, [req[p] EXCEPT !.result = "ok", !.value = req[p].obj, !.wrote = TRUE])
    /\ UNCHANGED <<persons, now, nextPersonId, nextRecordId, quietDeleted, quietDeletedEmps, started>>

\* ---- the read handlers ----------------------------------------------------
\* find_one({"id": pid}) on persons: the document, if there is one.
FindPersonById(coll, pid) ==
    LET Match(d) == d.id = pid
        found == SelectSeq(coll, Match)
    IN IF found = <<>> THEN <<>> ELSE <<Head(found)>>

\* The listing cut to 1000 documents before the date filter is applied.
ListForDay_CapFirst(coll, day) ==
    LET Match(d) == d.date = day IN SelectSeq(ToList(coll, ListCap), Match)

\* find({"date": day}).to_list(1000)
ListForDay(coll, day) ==
    LET Match(d) == d.date = day IN ToList(SelectSeq(coll, Match), ListCap)

\* The history cut to 100 documents before it is sorted.
HistoryFor_LimitFirst(coll, pid) ==
    LET Match(d) == d.person_id = pid
    IN SortDesc(ToList(SelectSeq(coll, Match), HistoryCap))

\* find({"person_id": pid}).sort("timestamp", -1).to_list(100)
HistoryFor(coll, pid) ==
    LET Match(d) == d.person_id = pid
    IN ToList(SortDesc(SelectSeq(coll, Match)), HistoryCap)

\* GET /persons
GetAllPersons(p) ==
    /\ Start(p)
    /\ Returns(p, [Blank EXCEPT !.op = "list", !.result = "ok",
                                !.value = ToList(persons, ListCap)])
    /\ UNCHANGED <<persons, attendance, now, nextPersonId, nextRecordId, quietDeleted, quietDeletedEmps>>

\* GET /persons/{person_id}
GetPerson(p, pid) ==
    /\ Start(p)
    /\ LET person == FindPersonById(persons, pid)
           r == [Blank EXCEPT !.op = "get", !.person_id = pid]
       IN IF person = <<>>
          THEN Returns(p, [r EXCEPT !.result = "PersonNotFound"])
          ELSE Returns(p, [r EXCEPT !.result = "ok", !.value = person])
    /\ UNCHANGED <<persons, attendance, now, nextPersonId, nextRecordId, quietDeleted, quietDeletedEmps>>

\* GET /attendance/today
GetTodayAttendance(p) ==
    /\ Start(p)
    /\ LET today == DateKey(now)
       IN Returns(p, [Blank EXCEPT !.op = "today", !.today = today, !.result = "ok",
                                   !.value = ListForDay(attendance, today)])
    /\ UNCHANGED <<persons, attendance, now, nextPersonId, nextRecordId, quietDeleted, quietDeletedEmps>>

\* db.attendance.count_documents({"date": day})
CountForDay(coll, day) ==
    LET Match(d) == d.date = day IN Len(SelectSeq(coll, Match))

\* The handler taking the number of Persons from the count of ids handed out
\* so far, a counter kept between calls, and not from the collection.
StatsCountPersons_Counter(p) ==
    /\ Start(p)
    /\ Continues(p, [Blank EXCEPT !.op = "stats", !.pc = "count", !.today = DateKey(now),
                                  !.obj = <<nextPersonId - 1>>])
    /\ UNCHANGED <<persons, attendance, now, nextPersonId, nextRecordId, quietDeleted, quietDeletedEmps>>

\* GET /attendance/stats: today is computed, then count_documents on persons.
StatsCountPersons(p) ==
    /\ Start(p)
    /\ Continues(p, [Blank EXCEPT !.op = "stats", !.pc = "count", !.today = DateKey(now),
                                  !.obj = <<Len(persons)>>])
    /\ UNCHANGED <<persons, attendance, now, nextPersonId, nextRecordId, quietDeleted, quietDeletedEmps>>

\* count_documents on attendance, the arithmetic, and the return.
StatsCountAttendance(p) ==
    /\ req[p].op = "stats" /\ req[p].pc = "count"
    /\ LET total_registered == req[p].obj[1]
           present_today == CountForDay(attendance, req[p].today)
       IN Returns(p, [req[p] EXCEPT !.result = "ok",
                          !.value = <<Stats(total_registered, present_today)>>])
    /\ UNCHANGED <<persons, attendance, now, nextPersonId, nextRecordId, quietDeleted, quietDeletedEmps, started>>

\* GET /attendance/history/{person_id}
GetPersonAttendanceHistory(p, pid) ==
    /\ Start(p)
    /\ Returns(p, [Blank EXCEPT !.op = "history", !.person_id = pid, !.result = "ok",
                                !.value = HistoryFor(attendance, pid)])
    /\ UNCHANGED <<persons, attendance, now, nextPersonId, nextRecordId, quietDeleted, quietDeletedEmps>>

\* GET /attendance/date/{date_str}
GetAttendanceByDate(p, date_str) ==
    /\ Start(p)
    /\ Returns(p, [Blank EXCEPT !.op = "bydate", !.date_str = date_str, !.result = "ok",
                                !.value = ListForDay(attendance, date_str)])
    /\ UNCHANGED <<persons, attendance, now, nextPersonId, nextRecordId, quietDeleted, quietDeletedEmps>>

Next ==
    \/ Tick
    \/ \E p \in Procs, name \in Names, emp \in EmployeeIds : CreateCheck(p, name, emp)
    \/ \E p \in Procs : CreateInsert(p)
    \/ \E p \in Procs, pid \in CallerIds : DeleteOnePerson(p, pid)
    \/ \E p \in Procs : DeleteCascade(p)
    \/ \E p \in Procs, pid \in CallerIds, name \in Names, emp \in EmployeeIds :
          MarkFindPerson(p, pid, name, emp)
    \/ \E p \in Procs : MarkCheckToday(p)
    \/ \E p \in Procs : MarkBuild(p)
    \/ \E p \in Procs : MarkInsert(p)
    \/ \E p \in Procs : GetAllPersons(p)
    \/ \E p \in Procs, pid \in CallerIds : GetPerson(p, pid)
    \/ \E p \in Procs : GetTodayAttendance(p)
    \/ \E p \in Procs : StatsCountPersons(p)
    \/ \E p \in Procs : StatsCountAttendance(p)
    \/ \E p \in Procs, pid \in CallerIds : GetPersonAttendanceHistory(p, pid)
    \/ \E p \in Procs, d \in DayKeys : GetAttendanceByDate(p, d)

Spec == Init /\ [][Next]_vars

\* The service over a store whose calls can fail under delete_person.
NextFaults ==
    \/ Next
    \/ \E p \in Procs, pid \in CallerIds : DeleteOneFails(p, pid)
    \/ \E p \in Procs : DeleteCascadeFails(p)

SpecFaults == Init /\ [][NextFaults]_vars

\* ---- the history of a long-lived store -----------------------------------
\* Stores the service reaches after many days: two Persons and n attendance
\* records, one per person and day, in the order the store returns them. The
\* order is that of the timestamps ("asc"), the reverse ("desc") or neither
\* ("mixed"); the records are of Person 1 ("one") or of both in turn ("both").
HistorySizes == (0..HistorySmall) \cup ((HistoryCap - 1)..(HistoryCap + HistoryOver))

HistoryDay(i, n, order) ==
    CASE order = "asc" -> i
      [] order = "desc" -> n - i
      [] OTHER -> IF i % 2 = 1 THEN i ELSE n + i

HistoryColl(n, order, owners) ==
    [i \in 1..n |->
        LET pid == IF owners = "both" /\ i % 2 = 0 THEN 2 ELSE 1
        IN AttendanceDoc(NewAttendanceRecord(i, pid, 1, pid,
                              UtcNow(TicksPerDay * HistoryDay(i, n, order), 0)))]

InitHistory ==
    /\ persons = <<PersonDoc(NewPerson(1, 1, 1, 0)), PersonDoc(NewPerson(2, 1, 2, 0))>>
    /\ \E n \in HistorySizes, order \in {"asc", "desc", "mixed"}, owners \in {"one", "both"} :
          /\ attendance = HistoryColl(n, order, owners)
          /\ nextRecordId = n + 1
    /\ now = MaxTime
    /\ nextPersonId = 3
    /\ req = [p \in Procs |-> Blank]
    /\ resp = NoResp
    /\ quietDeleted = {}
    /\ quietDeletedEmps = {}
    /\ started = 0

NextHistory ==
    \E p \in Procs, pid \in CallerIds : GetPersonAttendanceHistory(p, pid)

SpecHistory == InitHistory /\ [][NextHistory]_vars

\* ---- the listings by day over small and large stores ----------------------
\* Stores of n Persons with one attendance record each, in the order the
\* store returns them. The records are all of the current day ("all"), all
\* but the first, which is of day 0 ("butfirst"), or of day 0 and of the
\* current day in turn ("mixed").
ListSizes == (0..ListSmall) \cup ((ListCap - 1)..(ListCap + ListOver))

ListDay(i, pattern, today) ==
    CASE pattern = "all" -> today
      [] pattern = "butfirst" -> IF i = 1 THEN 0 ELSE today
      [] OTHER -> IF i % 2 = 0 THEN 0 ELSE today

ListColl(n, pattern, today) ==
    [i \in 1..n |->
        AttendanceDoc(NewAttendanceRecord(i, i, 1, i,
                          UtcNow(TicksPerDay * ListDay(i, pattern, today), 0)))]

InitLists ==
    /\ now \in 0..MaxTime
    /\ \E n \in ListSizes, pattern \in {"all", "butfirst", "mixed"} :
          /\ persons = [i \in 1..n |-> PersonDoc(NewPerson(i, 1, i, 0))]
          /\ attendance = ListColl(n, pattern, DateKey(now))
          /\ nextPersonId = n + 1
          /\ nextRecordId = n + 1
    /\ req = [p \in Procs |-> Blank]
    /\ resp = NoResp
    /\ quietDeleted = {}
    /\ quietDeletedEmps = {}
    /\ started = 0

NextLists ==
    \/ Tick
    \/ \E p \in Procs : GetTodayAttendance(p)
    \/ \E p \in Procs, d \in DayKeys : GetAttendanceByDate(p, d)

SpecLists == InitLists /\ [][NextLists]_vars

\* ---- properties ----------------------------------------------------------
\* Person ids that were registered and are no longer stored.
DeletedIds == (1..(nextPersonId - 1)) \ {persons[i].id : i \in 1..Len(persons)}

Quiescent == \A p \in Procs : req[p].op = "none"

\* C1 (I1 under concurrency): in every reachable state no two Person records
\* share the same employee_id.
C1_UniqueEmployeeId ==
    \A i, j \in 1..Len(persons) :
        i # j => persons[i].employee_id # persons[j].employee_id

\* C2 (I2 under concurrency): in every reachable state no two
\* AttendanceRecords share the same (person_id, date) pair.
C2_UniquePersonDate ==
    \A i, j \in 1..Len(attendance) :
        i # j => ~(/\ attendance[i].person_id = attendance[j].person_id
                   /\ attendance[i].date = attendance[j].date)

\* C3 (I4 in quiescent states): once every request has returned, the
\* attendance collection holds no record of a deleted Person.
C3_NoOrphanWhenQuiescent ==
    Quiescent =>
        \A i \in 1..Len(attendance) : attendance[i].person_id \notin DeletedIds

\* C4 (I3): at the step where mark_attendance inserts its record, a Person
\* with the record's person_id is in the persons collection.
C4_PersonExistsAtInsert ==
    [][\A p \in Procs :
          (req[p].op = "mark" /\ req[p].pc = "insert" /\ req'[p].op = "none")
              => \E i \in 1..Len(persons) : persons[i].id = req[p].person_id]_vars

\* delete_person of P is between its delete_one and its delete_many and
\* records of P are still stored.
PartialDelete(P) ==
    /\ \E q \in Procs : /\ req[q].op = "delete" /\ req[q].pc = "cascade"
                        /\ req[q].person_id = P
    /\ \A i \in 1..Len(persons) : persons[i].id # P
    /\ \E i \in 1..Len(attendance) : attendance[i].person_id = P

\* The step is a storage call of a read handler.
ReadStep ==
    \/ resp'.pc = "done" /\ resp'.op \in {"list", "get", "today", "stats", "history", "bydate"}
    \/ \E p \in Procs : req[p].op = "none" /\ req'[p].op = "stats"

\* C5 (delete is atomic for readers): no read handler executes a storage call
\* in a state where Person P is already removed and records of P are still
\* stored.
C5_ReadersSeeAtomicDelete ==
    [][ReadStep => \A P \in 1..MaxPersons : ~PartialDelete(P)]_vars

\* C6: a register call made when a stored Person has the same employee_id
\* fails with DuplicateEmployeeId and changes neither collection.
C6_DuplicateRegisterFails ==
    [][(resp'.op = "create" /\ resp'.pc = "done" /\ resp'.pre)
          => /\ resp'.result = "DuplicateEmployeeId"
             /\ ~resp'.wrote
             /\ persons' = persons /\ attendance' = attendance]_vars

\* C6 happens: a register was refused while a Person with its employee_id
\* was stored.
C6_Witness ==
    /\ resp.op = "create" /\ resp.pre /\ resp.result = "DuplicateEmployeeId"
    /\ \E i \in 1..Len(persons) : persons[i].employee_id = resp.employee_id

\* C7: a mark call for P that starts when P already has a record for the day
\* the call computes as today, P not being deleted, fails with
\* AttendanceAlreadyMarked and changes neither collection.
C7_SecondMarkFails ==
    [][(/\ resp'.op = "mark" /\ resp'.pc = "done"
        /\ resp'.today \in resp'.preDays
        /\ \E i \in 1..Len(persons') : persons'[i].id = resp'.person_id)
          => /\ resp'.result = "AttendanceAlreadyMarked"
             /\ ~resp'.wrote
             /\ persons' = persons /\ attendance' = attendance]_vars

\* C7 happens: a second mark for a stored Person on a day it was marked.
C7_Witness ==
    /\ resp.op = "mark" /\ resp.result = "AttendanceAlreadyMarked"
    /\ resp.today \in resp.preDays
    /\ \E i \in 1..Len(persons) : persons[i].id = resp.person_id
    /\ \E i \in 1..Len(attendance) :
          attendance[i].person_id = resp.person_id /\ attendance[i].date = resp.today

\* C8: a mark call whose person_id is not stored when the call starts (never
\* registered, or registered and deleted) fails with PersonNotFound and
\* creates no AttendanceRecord.
C8_MarkUnknownPersonFails ==
    [][(resp'.op = "mark" /\ resp'.pc = "done" /\ resp'.pre)
          => /\ resp'.result = "PersonNotFound"
             /\ ~resp'.wrote
             /\ attendance' = attendance]_vars

\* C8 happens: a mark for a Person that was registered and deleted is refused.
C8_Witness ==
    /\ resp.op = "mark" /\ resp.pre /\ resp.result = "PersonNotFound"
    /\ resp.person_id \in DeletedIds

\* C9: after a delete of P that returned successfully with no other request
\* in flight, get(P) finds nothing, historyFor(P) is empty and listForDay(d)
\* holds no record of P for any day d; the responses of the read handlers say
\* the same.
C9_DeletedPersonIsGone ==
    \A P \in quietDeleted :
        /\ FindPersonById(persons, P) = <<>>
        /\ HistoryFor(attendance, P) = <<>>
        /\ \A d \in DayKeys :
              \A i \in 1..Len(ListForDay(attendance, d)) :
                  ListForDay(attendance, d)[i].person_id # P
        /\ (resp.op = "get" /\ resp.person_id = P) => resp.result = "PersonNotFound"
        /\ (resp.op = "history" /\ resp.person_id = P) => resp.value = <<>>
        /\ resp.op \in {"bydate", "today"}
              => \A i \in 1..Len(resp.value) : resp.value[i].person_id # P

\* C9 happens: the only Person was registered, marked, deleted with nothing
\* else in flight, and its history was then asked for.
C9_Witness ==
    /\ quietDeleted = {1} /\ nextPersonId = 2 /\ nextRecordId = 2
    /\ resp.op = "history" /\ resp.person_id = 1

\* C10: when an insert finds the employee_id (the person and day) already
\* stored, because a concurrent request passed the same pre-check and inserted
\* first, the caller gets DuplicateEmployeeId (AttendanceAlreadyMarked).
C10_LateDuplicateIsReported ==
    [][\A p \in Procs :
          /\ (/\ req[p].op = "create" /\ req[p].pc = "insert" /\ req'[p].op = "none"
              /\ \E i \in 1..Len(persons) : persons[i].employee_id = req[p].employee_id)
                => resp'.result = "DuplicateEmployeeId"
          /\ (/\ req[p].op = "mark" /\ req[p].pc = "insert" /\ req'[p].op = "none"
              /\ \E i \in 1..Len(attendance) :
                    /\ attendance[i].person_id = req[p].person_id
                    /\ attendance[i].date = req[p].obj[1].date)
                => resp'.result = "AttendanceAlreadyMarked"]_vars

\* The step in which the stats handler of slot p starts / returns.
StatsStarts(p) == req[p].op = "none" /\ req'[p].op = "stats"
StatsReturns(p) == req[p].op = "stats" /\ req'[p].op = "none"

\* r is present / total * 100 in hundredths, rounded to the nearest, ties to
\* the even one.
IsRate(r, present, total) ==
    LET err == r * total - present * 10000
    IN /\ 2 * err <= total /\ -2 * err <= total
       /\ (2 * err = total \/ -2 * err = total) => r % 2 = 0

C12_HistoryIsLatestFirst ==
    resp.op = "history" =>
        LET v == resp.value
            P == resp.person_id
            mine == {i \in 1..Len(attendance) : attendance[i].person_id = P}
        IN /\ \A k \in 1..Len(v) :
                 v[k].person_id = P /\ \E i \in mine : attendance[i] = v[k]
           /\ \A k, l \in 1..Len(v) :
                 k < l => v[k].timestamp >= v[l].timestamp /\ v[k].id # v[l].id
           /\ Len(v) = IF Cardinality(mine) > 100 THEN 100 ELSE Cardinality(mine)
           /\ \A i \in mine :
                 (\A k \in 1..Len(v) : v[k].id # attendance[i].id)
                     => \A k \in 1..Len(v) : attendance[i].timestamp <= v[k].timestamp

\* C12 happens: the history of a Person with more than 100 records, stored
\* oldest first, is returned.
C12_Witness ==
    /\ resp.op = "history" /\ Len(resp.value) = 100
    /\ Cardinality({i \in 1..Len(attendance) :
                       attendance[i].person_id = resp.person_id}) > 100
    /\ attendance[1].timestamp < attendance[2].timestamp
    /\ resp.value[1].timestamp > resp.value[2].timestamp

\* C13: a delete of an id no Person has fails with NotFound and changes
\* neither collection: no AttendanceRecord is removed, not even one whose
\* person_id is that id.
C13_DeleteUnknownFails ==
    [][(resp'.op = "delete" /\ resp'.pc = "done" /\ resp'.pre)
          => /\ resp'.result = "PersonNotFound"
             /\ ~resp'.wrote
             /\ persons' = persons /\ attendance' = attendance]_vars

\* C13 happens: a delete of an id no Person has is refused while a record
\* with that person_id is stored.
C13_Witness ==
    /\ resp.op = "delete" /\ resp.pre /\ resp.result = "PersonNotFound"
    /\ \E i \in 1..Len(attendance) : attendance[i].person_id = resp.person_id

\* C14: get(id) succeeds exactly when a Person with that id is stored and
\* else fails with NotFound; it changes no collection; and the Person it
\* returns has every field equal to what register returned for it, so that
\* the Person a register returns is the Person a get of its id returns from
\* the store this register leaves.
C14_GetReturnsRegistered ==
    [][/\ (resp'.op = "get" /\ resp'.pc = "done")
          => /\ persons' = persons /\ attendance' = attendance
             /\ IF \E i \in 1..Len(persons) : persons[i].id = resp'.person_id
                THEN /\ resp'.result = "ok"
                     /\ resp'.value[1].id = resp'.person_id
                     /\ resp'.value[1] \in Range(persons)
                ELSE resp'.result = "PersonNotFound"
       /\ (resp'.op = "create" /\ resp'.pc = "done" /\ resp'.result = "ok")
          => FindPersonById(persons', resp'.value[1].id) = resp'.value]_vars

\* v is the AttendanceStats of the collections ps and att on day.
StatsOfStore(v, ps, att, day) ==
    LET present == Cardinality({i \in 1..Len(att) : att[i].date = day})
    IN /\ v.total_registered = Cardinality(1..Len(ps))
       /\ v.present_today = present
       /\ v.absent_today = IF Len(ps) >= present THEN Len(ps) - present ELSE 0
       /\ IF Len(ps) = 0 THEN v.attendance_rate = 0
                         ELSE IsRate(v.attendance_rate, present, Len(ps))

\* C15: computeStats is a pure read: its steps change neither collection,
\* it reads the number of Persons and the day from the current state and
\* keeps nothing when it returns; a call during which the Persons counted and
\* the day stay the current ones returns the one result the current
\* collections and day determine, so two such calls with no write in between
\* return the same result.
C15_StatsPureRead ==
    [][\A p \in Procs :
          /\ (StatsStarts(p) \/ StatsReturns(p)) =>
                /\ persons' = persons /\ attendance' = attendance
                /\ nextPersonId' = nextPersonId /\ nextRecordId' = nextRecordId
                /\ quietDeleted' = quietDeleted /\ now' = now
                /\ \A q \in Procs \ {p} : req'[q] = req[q]
          /\ StatsStarts(p) =>
                /\ req'[p].obj = <<Cardinality(1..Len(persons))>>
                /\ req'[p].today = now \div TicksPerDay
                /\ req'[p].value = <<>> /\ req'[p].result = "none"
          /\ StatsReturns(p) => req'[p] = Blank
          /\ (/\ StatsReturns(p)
              /\ req[p].obj = <<Cardinality(1..Len(persons))>>
              /\ req[p].today = now \div TicksPerDay)
                => /\ resp'.result = "ok"
                   /\ StatsOfStore(resp'.value[1], persons, attendance,
                                   now \div TicksPerDay)]_vars

\* C15 happens: of two stats calls in flight over the same collections, one
\* Person and a record of today stored and one Person deleted before, the
\* first returns.
C15_Witness ==
    /\ resp.op = "stats" /\ resp.pc = "done"
    /\ resp.value[1].total_registered = 1 /\ resp.value[1].present_today = 1
    /\ Len(persons) = 1 /\ Len(attendance) = 1
    /\ \E q \in Procs : /\ req[q].op = "stats"
                         /\ req[q].obj = <<1>> /\ req[q].today = resp.today

\* C16: the date stored in the AttendanceRecord a successful mark creates is
\* the day key that call used in its AlreadyMarkedToday check, also when the
\* day changes while the call is in flight.
C16_StoredDateIsCheckedDay ==
    [][(resp'.op = "mark" /\ resp'.pc = "done" /\ resp'.result = "ok")
          => /\ attendance' # <<>>
             /\ attendance'[Len(attendance')].id = resp'.value[1].id
             /\ attendance'[Len(attendance')].date = resp'.today]_vars

\* The records of Person P in coll, as (id, date) pairs.
RecordsOf(coll, P) ==
    {<<coll[i].id, coll[i].date>> : i \in {j \in 1..Len(coll) : coll[j].person_id = P}}

\* C17: per (person_id, date) the only transition is unmarked -> marked: when
\* Person P has a record for a day D and none for the later day D2, a mark
\* for P made on D2 is not refused by its AlreadyMarkedToday check, builds a
\* record of P dated with the day of the build, D2 for a call made on D2, and
\* returns it after adding exactly that record; every record stored before,
\* the one for (P, D) included, stays unchanged.
C17_NewDayNewRecord ==
    [][\A p \in Procs :
          LET P == req[p].person_id
              D2 == now \div TicksPerDay
          IN /\ (/\ req[p].op = "mark" /\ req[p].pc = "check" /\ req'[p] # req[p]
                 /\ \E r \in RecordsOf(attendance, P) : r[2] < D2
                 /\ \A r \in RecordsOf(attendance, P) : r[2] # D2)
                   => /\ req'[p].pc = "build" /\ req'[p].today = D2
                      /\ attendance' = attendance
             /\ (req[p].op = "mark" /\ req[p].pc = "build" /\ req'[p] # req[p])
                   => /\ req'[p].pc = "insert"
                      /\ req'[p].obj[1].person_id = P
                      /\ req'[p].obj[1].date = D2
                      /\ \A i \in 1..Len(attendance) :
                            attendance[i].id # req'[p].obj[1].id
                      /\ attendance' = attendance
             /\ (req[p].op = "mark" /\ req[p].pc = "insert" /\ req'[p] # req[p])
                   => /\ resp'.result = "ok" /\ resp'.value = req[p].obj
                      /\ Len(attendance') = Len(attendance) + 1
                      /\ \A i \in 1..Len(attendance) : attendance'[i] = attendance[i]
                      /\ LET new == attendance'[Len(attendance')]
                         IN /\ new.id = req[p].obj[1].id
                            /\ new.person_id = P
                            /\ new.date = req[p].obj[1].date]_vars

\* C17 happens: a mark made on day 1 for a Person marked on day 0 has
\* returned its record, and both records are stored.
C17_Witness ==
    /\ resp.op = "mark" /\ resp.pc = "done" /\ resp.result = "ok"
    /\ resp.preDays = {0} /\ resp.today = 1 /\ now \div TicksPerDay = 1
    /\ Len(attendance) = 2
    /\ attendance[1].person_id = resp.person_id /\ attendance[1].date = 0
    /\ attendance[2].person_id = resp.person_id /\ attendance[2].date = 1
    /\ attendance[2].id = resp.value[1].id

\* C18: stored records are never modified in place: in every step each
\* stored Person and each stored AttendanceRecord either stays, with every
\* field as it was, or is removed; no stored document takes the id of one
\* stored before with other field values; a Person is removed only by the
\* delete_one of a delete of its own id, an AttendanceRecord only by the
\* delete_many of a delete of its person_id.
C18_RecordsImmutable ==
    [][/\ \A d \in Range(persons) :
             \/ d \in Range(persons')
             \/ /\ \A e \in Range(persons') : e.id # d.id
                /\ \E p \in Procs : /\ req[p].op = "none" /\ req'[p].op = "delete"
                                     /\ req'[p].person_id = d.id
       /\ \A d \in Range(attendance) :
             \/ d \in Range(attendance')
             \/ /\ \A e \in Range(attendance') : e.id # d.id
                /\ \E p \in Procs : /\ req[p].op = "delete" /\ req[p].pc = "cascade"
                                     /\ req'[p].op = "none"
                                     /\ req[p].person_id = d.person_id]_vars

\* C18 happens: a delete has removed a Person and returned while another
\* Person and a record of that other Person are stored.
C18_Witness ==
    /\ resp.op = "delete" /\ resp.pc = "done" /\ resp.result = "ok"
    /\ \E i \in 1..Len(persons) : persons[i].id # resp.person_id
    /\ \E i \in 1..Len(attendance) :
          /\ attendance[i].person_id # resp.person_id
          /\ \E k \in 1..Len(persons) : persons[k].id = attendance[i].person_id

\* C19: a successful register adds exactly one Person record, whose id is
\* the id of no Person stored before, and leaves every stored Person and the
\* whole attendance collection unchanged.
C19_RegisterAddsOne ==
    [][(resp'.op = "create" /\ resp'.pc = "done" /\ resp'.result = "ok")
          => /\ Len(persons') = Len(persons) + 1
             /\ \A i \in 1..Len(persons) : persons'[i] = persons[i]
             /\ LET new == persons'[Len(persons')]
                IN /\ new.id = resp'.value[1].id
                   /\ new.name = resp'.name /\ new.employee_id = resp'.employee_id
                   /\ \A i \in 1..Len(persons) : persons[i].id # new.id
             /\ attendance' = attendance]_vars

\* C19 happens: a register has returned the second Person of a store that
\* also holds an attendance record.
C19_Witness ==
    /\ resp.op = "create" /\ resp.pc = "done" /\ resp.result = "ok"
    /\ Len(persons) = 2 /\ persons[2].id = resp.value[1].id
    /\ attendance # <<>>

IsListingOf(v, coll, d) ==
    LET OfDay(i) == coll[i].date = d
        hits == SelectSeq([i \in 1..Len(coll) |-> i], OfDay)
    IN /\ Len(v) = IF Len(hits) > 1000 THEN 1000 ELSE Len(hits)
       /\ \A k \in 1..Len(v) : v[k] = coll[hits[k]]

\* C21: listToday returns the records listForDay returns for the current
\* day key, and listForDay(d) returns exactly the records dated d, the first
\* 1000 of them when there are more, and none of another date; neither
\* changes a collection.
C21_ListingsByDay ==
    [][/\ (resp'.op = "today" /\ resp'.pc = "done")
            => /\ resp'.result = "ok"
               /\ IsListingOf(resp'.value, attendance, now \div TicksPerDay)
               /\ persons' = persons /\ attendance' = attendance
       /\ (resp'.op = "bydate" /\ resp'.pc = "done")
            => /\ resp'.result = "ok"
               /\ IsListingOf(resp'.value, attendance, resp'.date_str)
               /\ \A k \in 1..Len(resp'.value) : resp'.value[k].date = resp'.date_str
               /\ persons' = persons /\ attendance' = attendance]_vars

\* C21 happens: listToday returns 1000 records of a store that holds more
\* than 1000 records of the current day after a record of another day.
C21_Witness ==
    /\ resp.op = "today" /\ resp.pc = "done" /\ Len(resp.value) = 1000
    /\ Len(attendance) > 1001
    /\ attendance[1].date # resp.today
    /\ \A i \in 2..Len(attendance) : attendance[i].date = resp.today
    /\ resp.value[1000] = attendance[1001]

\* C22: in every result computeStats returns, whatever register, mark and
\* delete requests run beside it, present_today <= total_registered and
\* attendance_rate is at most 100 (10000 hundredths of a percent).
C22_PresentAtMostRegistered ==
    (resp.op = "stats" /\ resp.pc = "done")
        => /\ resp.value[1].present_today <= resp.value[1].total_registered
           /\ resp.value[1].attendance_rate <= 10000

\* C23: whenever delete(P) returns a failure, NotFound or an internal error
\* after a storage call raised, the call has changed neither collection: it
\* has not removed P, and so never leaves P removed with its records stored.
C23_FailedDeleteChangesNothing ==
    [][(/\ resp'.op = "delete" /\ resp'.pc = "done"
        /\ resp'.result \in {"PersonNotFound", "InternalError"})
          => /\ ~resp'.wrote
             /\ persons' = persons /\ attendance' = attendance]_vars

\* C24: a successful delete(P) removes only Person P and the records whose
\* person_id is P: its delete_one leaves every other Person and the whole
\* attendance collection as they were, and its delete_many leaves every
\* Person and every record of another person as they were, in their order.
C24_DeleteRemovesOnlyItsOwn ==
    [][\A p \in Procs :
          /\ (req[p].op = "none" /\ req'[p].op = "delete")
                => LET P == req'[p].person_id
                       Other(d) == d.id # P
                   IN /\ persons' = SelectSeq(persons, Other)
                      /\ Len(persons') = Len(persons) - 1
                      /\ attendance' = attendance
          /\ (/\ req[p].op = "delete" /\ req'[p].op = "none"
              /\ resp'.op = "delete" /\ resp'.result = "ok")
                => LET P == req[p].person_id
                       OfOther(d) == d.person_id # P
                   IN /\ attendance' = SelectSeq(attendance, OfOther)
                      /\ persons' = persons]_vars

\* C24 happens: with every request served, a delete has removed a Person
\* and the record made for it, and the other Person is stored.
C24_Witness ==
    /\ resp.op = "delete" /\ resp.pc = "done" /\ resp.result = "ok"
    /\ \A p \in Procs : req[p].op = "none"
    /\ Len(persons) = 1 /\ persons[1].id # resp.person_id
    /\ attendance = <<>> /\ nextRecordId > 1

\* C25: employee_id uniqueness is over the stored Persons only: a register is
\* refused only when a stored Person has its employee_id, so that one with
\* the employee_id of a Person whose delete has completed succeeds; the new
\* Person gets an id that no deleted and no stored Person had, and no stored
\* record has it as person_id, so that its history is empty.
C25_ReRegisterAfterDelete ==
    [][/\ (/\ resp'.op = "create" /\ resp'.pc = "done"
           /\ resp'.result = "DuplicateEmployeeId")
             => \E i \in 1..Len(persons) : persons[i].employee_id = resp'.employee_id
       /\ (resp'.op = "create" /\ resp'.pc = "done")
             => resp'.result \in {"ok", "DuplicateEmployeeId"}
       /\ \A p \in Procs :
             (req[p].op = "create" /\ req'[p].op = "none") => resp'.result = "ok"
       /\ (resp'.op = "create" /\ resp'.pc = "done" /\ resp'.result = "ok")
             => LET new == resp'.value[1].id
                IN /\ new \notin quietDeleted
                   /\ \A i \in 1..Len(persons) : persons[i].id # new
                   /\ \A i \in 1..Len(attendance') : attendance'[i].person_id # new
                   /\ \E i \in 1..Len(persons') :
                         /\ persons'[i].id = new
                         /\ persons'[i].employee_id = resp'.employee_id]_vars

\* C25 happens: Person 1 was registered, marked and deleted with nothing else
\* in flight, and a register with its former employee_id has returned
\* Person 2.
C25_Witness ==
    /\ resp.op = "create" /\ resp.pc = "done" /\ resp.result = "ok"
    /\ quietDeleted = {1} /\ quietDeletedEmps = {resp.employee_id}
    /\ resp.value[1].id = 2
    /\ nextRecordId = 2 /\ attendance = <<>>
    /\ Len(persons) = 1 /\ persons[1].id = 2

====
